---- MODULE Spec2Model ----
(***************************************************************************)
(* madeleine: a schema-less reader of Bond Compact Binary.                   *)
(*                                                                           *)
(* The recursive descent of _bond_reader.py is modelled as a machine with   *)
(* an explicit call stack: one frame per active Python call, one action per *)
(* read of the byte source or per loop iteration.  The byte source is the   *)
(* environment: `data` holds the bytes of the source the call has seen so   *)
(* far, a read past them either reveals new bytes or finds the end of the   *)
(* source (`eof`).  BondValue objects carry an object identity `oid`,       *)
(* because BondValue defines neither __eq__ nor __hash__.                   *)
(***************************************************************************)
EXTENDS Integers, Sequences, FiniteSets, TLC

VARIABLES data, eof, pos, stack, ret, status, err, nextOid, last, root, call, first, nav

vars == <<data, eof, pos, stack, ret, status, err, nextOid, last, root, call, first, nav>>

\* ------------------------------------------------------------------ bounds

\* The longest byte source a call is given.
MaxSize == 5
\* The largest value a varint of the source encodes.
MaxVarint == 129
\* The longest id path handed to traverse.
MaxPath == 2

\* The bytes of the sources, by what the decoder reads there.
\* Where a tag is read (a field header, a container tag, a map's key or value
\* type): selectors 0, 3, 6 and 7 and every branch of _read_value, and 216
\* (0xD8), whose low five bits, 24, are no BondType.
TagBytes == {0, 1, 2, 3, 5, 7, 8, 9, 10, 11, 12, 13, 14, 16, 18, 98, 195, 224, 216}
\* Where a varint is read: one-byte values and the continuation byte 0x81.
VarintBytes == {0, 1, 2, 3, 129}
\* Where an extended field id is read.
IdBytes == {0, 2}
\* Where a one-byte scalar is read (195 is -61 as an Int8).
ScalarBytes == {0, 2, 195}
\* Where a span is read or skipped as a whole (string and wstring bodies,
\* floats, blobs): NUL, the UTF-8 pair C3 A9, and D8, which is no UTF-8 lead
\* byte, the high byte of a UTF-16 surrogate, and no tag.
Fill == {0, 195, 169, 216}
\* The ids traverse is asked for.
PathIds == {0, 1, 2}

\* ------------------------------------------------------------- BondType

Stop == 0
StopBase == 1
Bool == 2
Uint8 == 3
Uint16 == 4
Uint32 == 5
Uint64 == 6
Float == 7
Double == 8
String == 9
Struct == 10
List == 11
Set == 12
Map == 13
Int8 == 14
Int16 == 15
Int32 == 16
Int64 == 17
Wstring == 18
Unavailable == 127

\* The members of the IntEnum; BondType(x) raises ValueError for any other x.
BondType == (0 .. 18) \cup {Unavailable}

\* ------------------------------------------------------------ arithmetic

Min(a, b) == IF a < b THEN a ELSE b

RECURSIVE Pow2(_)
Pow2(n) == IF n = 0 THEN 1 ELSE 2 * Pow2(n - 1)

\* a | b on non-negative integers.
RECURSIVE BitOr(_, _)
BitOr(a, b) ==
    IF a = 0 THEN b
    ELSE IF b = 0 THEN a
    ELSE (IF a % 2 = 1 \/ b % 2 = 1 THEN 1 ELSE 0) + 2 * BitOr(a \div 2, b \div 2)

\* int.from_bytes(bs, byteorder="little"); 0 for the empty bytes object.
RECURSIVE FromBytesLittle(_)
FromBytesLittle(bs) ==
    IF bs = <<>> THEN 0 ELSE bs[1] + 256 * FromBytesLittle(Tail(bs))

\* The bytes of a little-endian word, most significant first.
Reverse(bs) == [i \in 1 .. Len(bs) |-> bs[Len(bs) + 1 - i]]

\* (u >> 1) ^ -(u & 1): xor with 0 keeps u >> 1, xor with -1 complements it.
ZigZag(u) == IF u % 2 = 0 THEN u \div 2 ELSE -(u \div 2) - 1

\* All sequences over A of length at most k.
Seqs(A, k) == UNION {[1 .. j -> A] : j \in 0 .. k}

\* --------------------------------------------------------------- payloads

PyNone == [py |-> "None", v |-> 0]
PyInt(n) == [py |-> "int", v |-> n]
PyBool(b) == [py |-> "bool", v |-> b]
PyFloat(bits) == [py |-> "float", v |-> bits]
PyStr(cps) == [py |-> "str", v |-> cps]
PyList(vs) == [py |-> "list", v |-> vs]
PyDict(kvs) == [py |-> "dict", v |-> kvs]
PyTuple(type, count) == [py |-> "tuple", v |-> [type |-> type, count |-> count]]
PyValue(val) == [py |-> "BondValue", v |-> val]

\* BondValue(id, type, value): a new object, of identity oid.
BondValue(id, type, value, oid) == [id |-> id, type |-> type, value |-> value, oid |-> oid]

\* ---------------------------------------------------------- text decoding

IsCont(bs, i) == i <= Len(bs) /\ bs[i] >= 128 /\ bs[i] <= 191

\* bytes.decode("utf-8") from index i on: the code points, or <<-1>> where
\* Python raises UnicodeDecodeError (a stray or missing continuation byte, an
\* overlong form, a surrogate, a code point above U+10FFFF).
RECURSIVE Utf8From(_, _, _)
Utf8From(bs, i, acc) ==
    IF i > Len(bs) THEN acc
    ELSE LET b == bs[i] IN
      IF b < 128 THEN Utf8From(bs, i + 1, Append(acc, b))
      ELSE IF b >= 194 /\ b <= 223 THEN
        IF IsCont(bs, i + 1)
        THEN Utf8From(bs, i + 2, Append(acc, (b % 32) * 64 + (bs[i + 1] % 64)))
        ELSE <<-1>>
      ELSE IF b >= 224 /\ b <= 239 THEN
        IF /\ IsCont(bs, i + 1) /\ IsCont(bs, i + 2)
           /\ (b = 224 => bs[i + 1] >= 160)
           /\ (b = 237 => bs[i + 1] <= 159)
        THEN Utf8From(bs, i + 3,
                 Append(acc, (b % 16) * 4096 + (bs[i + 1] % 64) * 64 + (bs[i + 2] % 64)))
        ELSE <<-1>>
      ELSE IF b >= 240 /\ b <= 244 THEN
        IF /\ IsCont(bs, i + 1) /\ IsCont(bs, i + 2) /\ IsCont(bs, i + 3)
           /\ (b = 240 => bs[i + 1] >= 144)
           /\ (b = 244 => bs[i + 1] <= 143)
        THEN Utf8From(bs, i + 4,
                 Append(acc, (b % 8) * 262144 + (bs[i + 1] % 64) * 4096
                             + (bs[i + 2] % 64) * 64 + (bs[i + 3] % 64)))
        ELSE <<-1>>
      ELSE <<-1>>

Utf8Decode(bs) == Utf8From(bs, 1, <<>>)

\* The 16-bit code unit at bytes i, i+1, little-endian unless big.
Unit16(bs, i, big) == IF big THEN bs[i] * 256 + bs[i + 1] ELSE bs[i] + 256 * bs[i + 1]

\* bytes.decode("utf-16") from index i on: code points, or <<-1>> for a
\* UnicodeDecodeError (an odd byte left over, an unpaired surrogate).
RECURSIVE Utf16From(_, _, _, _)
Utf16From(bs, i, big, acc) ==
    IF i > Len(bs) THEN acc
    ELSE IF i = Len(bs) THEN <<-1>>
    ELSE LET u == Unit16(bs, i, big) IN
      IF u < 55296 \/ u > 57343 THEN Utf16From(bs, i + 2, big, Append(acc, u))
      ELSE IF u >= 56320 THEN <<-1>>
      ELSE IF i + 3 > Len(bs) THEN <<-1>>
      ELSE LET w == Unit16(bs, i + 2, big) IN
        IF w >= 56320 /\ w <= 57343
        THEN Utf16From(bs, i + 4, big,
                 Append(acc, 65536 + (u - 55296) * 1024 + (w - 56320)))
        ELSE <<-1>>

\* A leading byte order mark chooses the order and is dropped; without one
\* the order is the host's, little-endian.
Utf16Decode(bs) ==
    IF Len(bs) >= 2 /\ bs[1] = 255 /\ bs[2] = 254 THEN Utf16From(bs, 3, FALSE, <<>>)
    ELSE IF Len(bs) >= 2 /\ bs[1] = 254 /\ bs[2] = 255 THEN Utf16From(bs, 3, TRUE, <<>>)
    ELSE Utf16From(bs, 1, FALSE, <<>>)

\* ------------------------------------------------------------ the machine

\* The record of the last return of each function, kept for the properties.
NoLast ==
    [tag |-> [at |-> -1, byte |-> 0],
     tid |-> [at |-> -1, end |-> -1, id |-> 0, type |-> 0],
     tc |-> [at |-> -1, end |-> -1, type |-> 0, count |-> 0],
     seek |-> [at |-> -1, end |-> -1, count |-> 0],
     val |-> [at |-> -1, end |-> -1, id |-> 0, type |-> 0],
     list |-> [at |-> -1, body |-> -1, end |-> -1, type |-> 0, count |-> 0,
               blob |-> FALSE, values |-> <<>>],
     struct |-> [at |-> -1, end |-> -1, length |-> 0, fields |-> <<>>, values |-> <<>>],
     map |-> [at |-> -1, end |-> -1, count |-> 0, values |-> <<>>]]

\* The machine's state as one record, so that a step is a function of it.
Cur ==
    [data |-> data, eof |-> eof, pos |-> pos, stack |-> stack, ret |-> ret,
     status |-> status, err |-> err, nextOid |-> nextOid, last |-> last]

Become(m) ==
    /\ data' = m.data
    /\ eof' = m.eof
    /\ pos' = m.pos
    /\ stack' = m.stack
    /\ ret' = m.ret
    /\ status' = m.status
    /\ err' = m.err
    /\ nextOid' = m.nextOid
    /\ last' = m.last

Top(m) == m.stack[Len(m.stack)]
Pop(m) == [m EXCEPT !.stack = SubSeq(@, 1, Len(@) - 1)]
SetTop(m, f) == [m EXCEPT !.stack[Len(m.stack)] = f]
Push(m, frames) == [m EXCEPT !.stack = @ \o frames]
\* The callee hands v to its caller.
Return(m, v) == [m EXCEPT !.ret = <<v>>]
\* What the callee handed back.
Returned(m) == m.ret[1].v

\* An exception nothing catches: every frame is unwound and the call fails.
Raise(m, e) == [m EXCEPT !.status = "error", !.err = e, !.stack = <<>>, !.ret = <<>>]

\* What data.read(n) may return at the cursor: the bytes already seen, then
\* bytes the source reveals now (drawn from A), fewer than n only at its end.
Reads(m, n, A) ==
    LET known == IF m.pos < Len(m.data)
                 THEN SubSeq(m.data, m.pos + 1, Min(m.pos + n, Len(m.data)))
                 ELSE <<>>
        room == IF m.eof THEN 0 ELSE Min(n - Len(known), MaxSize - Len(m.data))
    IN  {known \o x : x \in Seqs(A, room)}

\* The source and the cursor after data.read(n) returned bs.
AfterRead(m, bs, n) ==
    [m EXCEPT !.data = IF bs # <<>> /\ m.pos + Len(bs) > Len(@)
                      THEN SubSeq(@, 1, m.pos) \o bs ELSE @,
              !.eof = @ \/ Len(bs) < n,
              !.pos = @ + Len(bs)]

\* data.seek(n): the offset taken from the start of the source.
AfterSeekFromStart(m, bs, n) ==
    [m EXCEPT !.data = IF bs # <<>> /\ m.pos + Len(bs) > Len(@)
                      THEN SubSeq(@, 1, m.pos) \o bs ELSE @,
              !.eof = @ \/ Len(bs) < n,
              !.pos = n]

\* The source and the cursor after data.seek(n, 1) passed over bs: the cursor
\* moves by n whether or not the source holds that many bytes.
AfterSeek(m, bs, n) ==
    [m EXCEPT !.data = IF bs # <<>> /\ m.pos + Len(bs) > Len(@)
                      THEN SubSeq(@, 1, m.pos) \o bs ELSE @,
              !.eof = @ \/ Len(bs) < n,
              !.pos = @ + n]

\* ----------------------------------------------------------------- frames

UlebFrame(at) == [fn |-> "_uleb128_decode", result |-> 0, shift |-> 0, at |-> at]
SlebFrame(at) == [fn |-> "_sleb128_decode", at |-> at]
StructFrame(at) ==
    [fn |-> "_read_struct", pc |-> "_length", length |-> 0, values |-> <<>>,
     fields |-> <<>>, at |-> at]
ListFrame(at) ==
    [fn |-> "_read_list", pc |-> "tag", type |-> 0, count |-> 0, i |-> 0,
     values |-> <<>>, at |-> at, body |-> at]
TypeCountFrame(at, t) == [fn |-> "_get_type_count", bond_type |-> t, at |-> at]
MapFrame(at) ==
    [fn |-> "_read_map", pc |-> "types", key_type |-> 0, value_type |-> 0,
     count |-> 0, i |-> 0, key |-> <<>>, values |-> <<>>, at |-> at]
StringFrame(at) == [fn |-> "_read_string", at |-> at]
WstringFrame(at) == [fn |-> "_read_wstring", at |-> at]
ValueFrame(at, id, type, oid) ==
    [fn |-> "_read_value", id |-> id, type |-> type, oid |-> oid, at |-> at]

\* -------------------------------------------------------------- _uleb.py

\* The bytes the varint loop may be handed: the source encodes no varint
\* above MaxVarint.
UlebReads(m) ==
    {bs \in Reads(m, 1, VarintBytes) :
        bs # <<>> =>
          BitOr(Top(m).result, (bs[1] % 128) * Pow2(Top(m).shift)) <= MaxVarint}

\* b & 0x80 == 0: the byte ends the varint.
IsLastByte(b) == b < 128

\* The loop of _uleb128_decode going round again on an empty read.
UlebStepSkipEmpty(m) ==
    {LET m1 == AfterRead(m, bs, 1)
         f == Top(m)
     IN  IF bs = <<>> THEN m1
         ELSE LET result == BitOr(f.result, (bs[1] % 128) * Pow2(f.shift))
              IN  IF IsLastByte(bs[1])
                  THEN Return(Pop(m1), PyInt(result))
                  ELSE SetTop(m1, [f EXCEPT !.result = result, !.shift = @ + 7])
     : bs \in UlebReads(m)}

\* One iteration of the loop of _uleb128_decode.
UlebStep(m) ==
    {LET m1 == AfterRead(m, bs, 1)
         f == Top(m)
     IN  IF bs = <<>> THEN Raise(m1, "IndexError")
         ELSE LET result == BitOr(f.result, (bs[1] % 128) * Pow2(f.shift))
              IN  IF IsLastByte(bs[1])
                  THEN Return(Pop(m1), PyInt(result))
                  ELSE SetTop(m1, [f EXCEPT !.result = result, !.shift = @ + 7])
     : bs \in UlebReads(m)}

\* _sleb128_decode once its varint is back.
SlebStep(m) == Return(Pop(m), PyInt(ZigZag(Returned(m))))

\* --------------------------------------------------------- _bond_reader.py

IsFiveBits(x) == x \in 0 .. 31

\* BondType(x) succeeds.
IsBondType(x) == x \in BondType

\* data.read(1)[0] read as a tag: the outcomes are the machine after the
\* read, with ok false where the subscript raised IndexError or BondType(...)
\* raised ValueError.
ReadTag(m) ==
    {LET m1 == AfterRead(m, bs, 1)
     IN  IF bs = <<>> THEN [m |-> Raise(m1, "IndexError"), ok |-> FALSE, byte |-> 0]
         ELSE LET m2 == [m1 EXCEPT !.last.tag = [at |-> m.pos, byte |-> bs[1]]]
              IN  IF IsBondType(bs[1] % 32)
                  THEN [m |-> m2, ok |-> TRUE, byte |-> bs[1]]
                  ELSE [m |-> Raise(m2, "ValueError"), ok |-> FALSE, byte |-> bs[1]]
     : bs \in Reads(m, 1, TagBytes)}

\* The id of a field header whose selector is 6: data.read(1)[0].
ExtId1(m, bs) ==
    IF bs = <<>> THEN [m |-> Raise(AfterRead(m, bs, 1), "IndexError"), ok |-> FALSE, id |-> 0]
    ELSE [m |-> AfterRead(m, bs, 1), ok |-> TRUE, id |-> bs[1]]

\* The id of a field header whose selector is 7:
\* int.from_bytes(data.read(2), byteorder="little"), whatever read returned.
ExtId2(m, bs) == [m |-> AfterRead(m, bs, 2), ok |-> TRUE, id |-> FromBytesLittle(bs)]

\* _type_and_id: the outcomes, with the id and the type where it returned.
TypeAndId(m) ==
    UNION {
      IF ~t.ok THEN {[m |-> t.m, ok |-> FALSE, id |-> 0, type |-> 0]}
      ELSE LET type == t.byte % 32
               sel == t.byte \div 32
               ids == IF sel = 6 THEN {ExtId1(t.m, bs) : bs \in Reads(t.m, 1, IdBytes)}
                      ELSE IF sel = 7 THEN {ExtId2(t.m, bs) : bs \in Reads(t.m, 2, IdBytes)}
                      ELSE {[m |-> t.m, ok |-> TRUE, id |-> sel]}
           IN  {IF ~r.ok THEN [m |-> r.m, ok |-> FALSE, id |-> 0, type |-> 0]
                ELSE [m |-> [r.m EXCEPT !.last.tid = [at |-> m.pos, end |-> r.m.pos,
                                                      id |-> r.id, type |-> type]],
                      ok |-> TRUE, id |-> r.id, type |-> type]
                : r \in ids}
      : t \in ReadTag(m)}

\* The bytes _read_value reads itself for a scalar of the type.
ScalarWidth(type) == IF type = Float THEN 4 ELSE IF type = Double THEN 8 ELSE 1

\* The payload of a scalar from the bytes read for it (a float as its IEEE-754
\* bit pattern, which struct.unpack reads little-endian), or the exception the
\* read raises: [0] on an empty bytes object raises IndexError, struct.unpack
\* on a buffer of the wrong size raises struct.error.
Scalar(type, bs) ==
    CASE type = Uint8 ->
           IF bs = <<>> THEN [exc |-> "IndexError"] ELSE [exc |-> "", value |-> PyInt(bs[1])]
      [] type = Bool ->
           IF bs = <<>> THEN [exc |-> "IndexError"] ELSE [exc |-> "", value |-> PyBool(bs[1] # 0)]
      [] type = Int8 ->
           IF bs = <<>> THEN [exc |-> "struct.error"]
           ELSE [exc |-> "", value |-> PyInt(IF bs[1] < 128 THEN bs[1] ELSE bs[1] - 256)]
      [] OTHER ->
           IF Len(bs) # ScalarWidth(type) THEN [exc |-> "struct.error"]
           ELSE [exc |-> "", value |-> PyFloat(Reverse(bs))]

\* _read_value(id, type, data) up to its first call or its return: the value
\* is built at once for a scalar and for a type that reads nothing, and the
\* callee's frame is pushed for the others.
ReadValue(m, id, type) ==
    LET oid == m.nextOid
        m0 == [m EXCEPT !.nextOid = @ + 1, !.ret = <<>>]
        self == ValueFrame(m.pos, id, type, oid)
        done(m1, value) ==
            [m1 EXCEPT !.ret = <<PyValue(BondValue(id, type, value, oid))>>,
                       !.last.val = [at |-> m.pos, end |-> m1.pos, id |-> id, type |-> type]]
    IN  CASE type = Struct -> {Push(m0, <<self, StructFrame(m.pos), UlebFrame(m.pos)>>)}
          [] type \in {Int32, Int64, Int16} ->
               {Push(m0, <<self, SlebFrame(m.pos), UlebFrame(m.pos)>>)}
          [] type \in {Uint16, Uint32, Uint64} -> {Push(m0, <<self, UlebFrame(m.pos)>>)}
          [] type \in {Uint8, Int8, Bool, Float, Double} ->
               {LET m1 == AfterRead(m0, bs, ScalarWidth(type))
                    r == Scalar(type, bs)
                IN  IF r.exc # "" THEN Raise(m1, r.exc) ELSE done(m1, r.value)
                : bs \in Reads(m0, ScalarWidth(type),
                               IF type \in {Float, Double} THEN Fill ELSE ScalarBytes)}
          [] type \in {Set, List} -> {Push(m0, <<self, ListFrame(m.pos)>>)}
          [] type = Map -> {Push(m0, <<self, MapFrame(m.pos)>>)}
          [] type = Wstring -> {Push(m0, <<self, WstringFrame(m.pos), UlebFrame(m.pos)>>)}
          [] type = String -> {Push(m0, <<self, StringFrame(m.pos), UlebFrame(m.pos)>>)}
          [] OTHER -> {done(m0, PyNone)}

\* _read_value once its callee is back: val.value = ...; return val.
ValueStep(m) ==
    LET f == Top(m)
    IN  [Pop(m) EXCEPT
           !.ret = <<PyValue(BondValue(f.id, f.type, m.ret[1], f.oid))>>,
           !.last.val = [at |-> f.at, end |-> m.pos, id |-> f.id, type |-> f.type]]

\* _read_field: _type_and_id, then _read_value.
ReadField(m) ==
    UNION {IF r.ok THEN ReadValue(r.m, r.id, r.type) ELSE {r.m} : r \in TypeAndId(m)}

\* _read_struct once its length varint is back: _length = ..., values = [].
StructBegin(m) ==
    [SetTop(m, [Top(m) EXCEPT !.pc = "loop", !.length = Returned(m)]) EXCEPT !.ret = <<>>]

StructMatchEitherStop(type) ==
    IF type = Stop \/ type = StopBase THEN "break" ELSE "append"

\* The arm of `match val.type` in _read_struct.
StructMatch(type) ==
    IF type = Stop THEN "break" ELSE IF type = StopBase THEN "pass" ELSE "append"

\* The rest of an iteration of the loop of _read_struct, val being back.
StructNext(m) ==
    LET f == Top(m)
        val == Returned(m)
        seen == Append(f.fields, [id |-> val.id, type |-> val.type, oid |-> val.oid])
        arm == StructMatch(val.type)
    IN  IF arm = "break"
        THEN [Return(Pop(m), PyList(f.values)) EXCEPT
                !.last.struct = [at |-> f.at, end |-> m.pos, length |-> f.length,
                                 fields |-> seen, values |-> f.values]]
        ELSE [SetTop(m, [f EXCEPT !.fields = seen,
                                  !.values = IF arm = "append" THEN Append(@, val) ELSE @])
              EXCEPT !.ret = <<>>]

InlineCountKept(length) == length

\* length -= 1: the count a non-zero selector carries.
InlineCount(length) == length - 1

\* _get_type_count up to its varint call or its return.
GetTypeCount(m) ==
    {IF ~t.ok THEN t.m
     ELSE LET bond_type == t.byte % 32
              length == t.byte \div 32
          IN  IF length = 0
              THEN Push(t.m, <<TypeCountFrame(m.pos, bond_type), UlebFrame(t.m.pos)>>)
              ELSE [Return(t.m, PyTuple(bond_type, InlineCount(length))) EXCEPT
                      !.last.tc = [at |-> m.pos, end |-> t.m.pos,
                                   type |-> bond_type, count |-> InlineCount(length)]]
     : t \in ReadTag(m)}

\* _get_type_count once its varint is back.
TypeCountStep(m) ==
    LET f == Top(m)
    IN  [Return(Pop(m), PyTuple(f.bond_type, Returned(m))) EXCEPT
           !.last.tc = [at |-> f.at, end |-> m.pos, type |-> f.bond_type,
                        count |-> Returned(m)]]

IsBlobButUint8(type) == type = List \/ type = Int8

\* The element types _read_list passes over instead of decoding.
IsBlob(type) == type = List \/ type = Int8 \/ type = Uint8

\* _read_blobs(data, count): data.seek(count, 1).
ReadBlobs(m, count) ==
    {[AfterSeek(m, bs, count) EXCEPT
        !.last.seek = [at |-> m.pos, end |-> m.pos + count, count |-> count]]
     : bs \in Reads(m, count, Fill)}

\* _read_list returns values.
ListReturn(m, f, blob) ==
    [Return(Pop(m), PyList(f.values)) EXCEPT
       !.last.list = [at |-> f.at, body |-> f.body, end |-> m.pos, type |-> f.type,
                      count |-> f.count, blob |-> blob, values |-> f.values]]

\* range(count) has another element after i of them.
HasNext(i, count) == i < count

\* _read_list from the return of _get_type_count to its first element.
ListBegin(m) ==
    LET tc == Returned(m)
        f == [Top(m) EXCEPT !.pc = "loop", !.type = tc.type, !.count = tc.count,
                            !.body = m.pos]
        m1 == [SetTop(m, f) EXCEPT !.ret = <<>>]
    IN  IF IsBlob(tc.type) THEN {ListReturn(b, f, TRUE) : b \in ReadBlobs(m1, tc.count)}
        ELSE IF HasNext(0, tc.count) THEN ReadValue(m1, 0, tc.type)
        ELSE {ListReturn(m1, f, FALSE)}

\* The rest of an iteration of the loop of _read_list, val being back.
ListNext(m) ==
    LET f == [Top(m) EXCEPT !.values = Append(@, Returned(m)), !.i = @ + 1]
        m1 == [SetTop(m, f) EXCEPT !.ret = <<>>]
    IN  IF HasNext(f.i, f.count) THEN ReadValue(m1, 0, f.type)
        ELSE {ListReturn(m1, f, FALSE)}

\* a == b and hash(a) == hash(b) for two BondValue objects: the class
\* defines neither, so both are object's, by identity.
KeyEq(a, b) == a.oid = b.oid

\* values[key] = value on a dict held as its items in insertion order.
DictSet(d, key, value) ==
    IF \E i \in 1 .. Len(d) : KeyEq(d[i].key, key)
    THEN [i \in 1 .. Len(d) |->
            IF KeyEq(d[i].key, key) THEN [key |-> d[i].key, value |-> value] ELSE d[i]]
    ELSE Append(d, [key |-> key, value |-> value])

\* _read_map returns values.
MapReturn(m, f) ==
    [Return(Pop(m), PyDict(f.values)) EXCEPT
       !.last.map = [at |-> f.at, end |-> m.pos, count |-> f.count, values |-> f.values]]

\* _read_map: the key type byte, the value type byte, then the count varint.
MapTypes(m) ==
    UNION {
      IF ~k.ok THEN {k.m}
      ELSE {IF ~v.ok THEN v.m
            ELSE Push(SetTop(v.m, [Top(m) EXCEPT !.pc = "count",
                                                 !.key_type = k.byte % 32,
                                                 !.value_type = v.byte % 32]),
                      <<UlebFrame(v.m.pos)>>)
            : v \in ReadTag(k.m)}
      : k \in ReadTag(m)}

\* _read_map from the return of its count varint to its first key.
MapBegin(m) ==
    LET f == [Top(m) EXCEPT !.pc = "key", !.count = Returned(m)]
        m1 == [SetTop(m, f) EXCEPT !.ret = <<>>]
    IN  IF HasNext(0, f.count) THEN ReadValue(m1, 0, f.key_type) ELSE {MapReturn(m1, f)}

\* The key being back, _read_map reads the value.
MapKey(m) ==
    LET f == [Top(m) EXCEPT !.pc = "value", !.key = <<Returned(m)>>]
    IN  ReadValue([SetTop(m, f) EXCEPT !.ret = <<>>], 0, f.value_type)

\* The value being back, _read_map stores the entry and goes on.
MapValue(m) ==
    LET f == [Top(m) EXCEPT !.pc = "key", !.key = <<>>, !.i = @ + 1,
                            !.values = DictSet(@, Top(m).key[1], Returned(m))]
        m1 == [SetTop(m, f) EXCEPT !.ret = <<>>]
    IN  IF HasNext(f.i, f.count) THEN ReadValue(m1, 0, f.key_type) ELSE {MapReturn(m1, f)}

\* _read_string (width 1, UTF-8) and _read_wstring (width 2, UTF-16) once
\* the length varint is back: data.read(length * width).decode(...).
TextBody(m, width, exc) ==
    {LET m1 == AfterRead(m, bs, Returned(m) * width)
         text == IF width = 1 THEN Utf8Decode(bs) ELSE Utf16Decode(bs)
     IN  IF text = <<-1>> THEN Raise(m1, exc) ELSE Return(Pop(m1), PyStr(text))
     : bs \in Reads(m, Returned(m) * width, Fill)}

\* ---------------------------------------------------------- _madeleine.py

\* BondValue.get_elements
get_elements(self) ==
    IF (self.type = List \/ self.type = Set \/ self.type = Struct) /\ self.value.py = "list"
    THEN self.value.v
    ELSE <<>>

\* The first index of elements whose element has the id, 0 if none has.
FirstWithId(elements, id) ==
    IF \E i \in 1 .. Len(elements) : elements[i].id = id
    THEN CHOOSE i \in 1 .. Len(elements) :
           /\ elements[i].id = id
           /\ \A j \in 1 .. i - 1 : elements[j].id # id
    ELSE 0

\* BondValue.get_by_id: <<element>>, or <<>> for None.
get_by_id(self, id) ==
    LET elements == get_elements(self)
        i == FirstWithId(elements, id)
    IN  IF i = 0 THEN <<>> ELSE <<elements[i]>>

\* BondValue.traverse(*ids, index): ids is 0-based in the code.  The
\* recursive call is element.traverse(index + 1, *ids): index + 1 goes first
\* among the positional ids, and index is left at its default, 0.
RECURSIVE traverse(_, _, _)
traverse(self, ids, index) ==
    LET elements == get_elements(self)
        i == FirstWithId(elements, ids[index + 1])
    IN  IF elements = <<>> \/ i = 0 THEN self
        ELSE IF index = Len(ids) - 1 THEN elements[i]
        ELSE traverse(elements[i], <<index + 1>> \o ids, 0)

\* ---------------------------------------------------------------- actions

\* get_base_struct(data) has been called on a source nothing is known of
\* yet: _read_struct is entered and is about to read its length varint.
Entered == <<StructFrame(0), UlebFrame(0)>>

Init ==
    /\ data = <<>>
    /\ eof = FALSE
    /\ pos = 0
    /\ stack = Entered
    /\ ret = <<>>
    /\ status = "run"
    /\ err = ""
    /\ nextOid = 0
    /\ last = NoLast
    /\ root = <<>>
    /\ call = 1
    /\ first = [consumed |-> 0, data |-> <<>>]
    /\ nav = <<>>

Running(fn) == status = "run" /\ stack # <<>> /\ Top(Cur).fn = fn
Calling(fn) == Running(fn) /\ ret = <<>>
Resuming(fn) == Running(fn) /\ ret # <<>>

Decoding == UNCHANGED <<root, call, first, nav>>

UlebByte == Calling("_uleb128_decode") /\ (\E m \in UlebStep(Cur) : Become(m)) /\ Decoding

SlebReturn == Resuming("_sleb128_decode") /\ Become(SlebStep(Cur)) /\ Decoding

StructLength ==
    /\ Resuming("_read_struct") /\ Top(Cur).pc = "_length"
    /\ Become(StructBegin(Cur))
    /\ Decoding

StructField ==
    /\ Calling("_read_struct") /\ Top(Cur).pc = "loop"
    /\ \E m \in ReadField(Cur) : Become(m)
    /\ Decoding

StructMatched ==
    /\ Resuming("_read_struct") /\ Top(Cur).pc = "loop"
    /\ Become(StructNext(Cur))
    /\ Decoding

ValueReturn == Resuming("_read_value") /\ Become(ValueStep(Cur)) /\ Decoding

ListTag ==
    /\ Calling("_read_list") /\ Top(Cur).pc = "tag"
    /\ \E m \in GetTypeCount(Cur) : Become(m)
    /\ Decoding

TypeCountReturn == Resuming("_get_type_count") /\ Become(TypeCountStep(Cur)) /\ Decoding

ListCounted ==
    /\ Resuming("_read_list") /\ Top(Cur).pc = "tag"
    /\ \E m \in ListBegin(Cur) : Become(m)
    /\ Decoding

ListElement ==
    /\ Resuming("_read_list") /\ Top(Cur).pc = "loop"
    /\ \E m \in ListNext(Cur) : Become(m)
    /\ Decoding

MapHeader ==
    /\ Calling("_read_map") /\ Top(Cur).pc = "types"
    /\ \E m \in MapTypes(Cur) : Become(m)
    /\ Decoding

MapCounted ==
    /\ Resuming("_read_map") /\ Top(Cur).pc = "count"
    /\ \E m \in MapBegin(Cur) : Become(m)
    /\ Decoding

MapKeyRead ==
    /\ Resuming("_read_map") /\ Top(Cur).pc = "key"
    /\ \E m \in MapKey(Cur) : Become(m)
    /\ Decoding

MapValueRead ==
    /\ Resuming("_read_map") /\ Top(Cur).pc = "value"
    /\ \E m \in MapValue(Cur) : Become(m)
    /\ Decoding

StringBody ==
    /\ Resuming("_read_string")
    /\ \E m \in TextBody(Cur, 1, "StringReadError") : Become(m)
    /\ Decoding

WstringBody ==
    /\ Resuming("_read_wstring")
    /\ \E m \in TextBody(Cur, 2, "WStringReadError") : Become(m)
    /\ Decoding

\* _get_base_struct returns BondValue(0, BondType.Struct, _read_struct(data)).
BaseReturn ==
    /\ status = "run" /\ stack = <<>> /\ ret # <<>>
    /\ root' = <<BondValue(0, Struct, ret[1], nextOid)>>
    /\ nextOid' = nextOid + 1
    /\ status' = "ok"
    /\ ret' = <<>>
    /\ UNCHANGED <<data, eof, pos, stack, err, last, call, first, nav>>

\* The caller navigates the tree it was given: root.traverse(*ids).  traverse
\* changes nothing, so one call on each tree sees all it can return.
Traverse ==
    /\ status = "ok" /\ nav = <<>>
    /\ \E ids \in Seqs(PathIds, MaxPath) \ {<<>>} :
         nav' = <<[ids |-> ids, out |-> traverse(root[1], ids, 0)]>>
    /\ UNCHANGED <<data, eof, pos, stack, ret, status, err, nextOid, last, root, call, first>>

\* A second call, on a truncation of a source the first call decoded without
\* ever reading past its end: its first cut bytes, fewer than were consumed.
Truncated ==
    /\ status = "ok" /\ call = 1 /\ ~eof
    /\ \E cut \in 0 .. pos - 1 :
         /\ data' = SubSeq(data, 1, cut)
         /\ first' = [consumed |-> pos, data |-> data]
    /\ eof' = TRUE
    /\ pos' = 0
    /\ stack' = Entered
    /\ ret' = <<>>
    /\ status' = "run"
    /\ err' = ""
    /\ nextOid' = 0
    /\ last' = NoLast
    /\ root' = <<>>
    /\ call' = 2
    /\ nav' = <<>>

Step ==
    \/ UlebByte
    \/ SlebReturn
    \/ StructLength
    \/ StructField
    \/ StructMatched
    \/ ValueReturn
    \/ ListTag
    \/ TypeCountReturn
    \/ ListCounted
    \/ ListElement
    \/ MapHeader
    \/ MapCounted
    \/ MapKeyRead
    \/ MapValueRead
    \/ StringBody
    \/ WstringBody
    \/ BaseReturn

Next == Step \/ Traverse \/ Truncated

Spec == Init /\ [][Next]_vars

\* One call alone.  The interpreter runs it to its end: a step that can be
\* taken is taken.
LiveSpec == Init /\ [][Step]_vars /\ WF_vars(Step)

\* ------------------------------------------------------------- properties

\* The node root.traverse(*ids) is to return: get_by_id once per id, the
\* node reached last where a child is missing.
RECURSIVE Walk(_, _)
Walk(node, ids) ==
    IF ids = <<>> THEN node
    ELSE LET child == get_by_id(node, Head(ids))
         IN  IF child = <<>> THEN node ELSE Walk(child[1], Tail(ids))

\* C1: traverse(ids) returns the node reached by following get_by_id for each
\* id in order, or the last node reached where a child is missing.
C1_TraverseFollowsIds == nav # <<>> => nav[1].out = Walk(root[1], nav[1].ids)

\* The fields of a struct loop that are neither Stop nor StopBase.
Kept(fields) == SelectSeq(fields, LAMBDA f : f.type # Stop /\ f.type # StopBase)
Header(val) == [id |-> val.id, type |-> val.type, oid |-> val.oid]
Headers(values) == [i \in 1 .. Len(values) |-> Header(values[i])]

C3_TruncationFails == call = 2 => status # "ok"

\* A decoded value without the identities of its objects.
RECURSIVE Plain(_)
Plain(val) ==
    [id |-> val.id, type |-> val.type,
     value |-> CASE val.value.py = "list" ->
                      PyList([i \in 1 .. Len(val.value.v) |-> Plain(val.value.v[i])])
                 [] val.value.py = "dict" ->
                      PyDict([i \in 1 .. Len(val.value.v) |->
                                [key |-> Plain(val.value.v[i].key),
                                 value |-> Plain(val.value.v[i].value)]])
                 [] OTHER -> val.value]

\* C4: a decoded map holds one entry per distinct decoded key (same type and
\* same payload), a later wire entry overwriting an earlier one of its key.
C4_MapKeysOverwrite ==
    last.map.at >= 0 =>
      \A i, j \in 1 .. Len(last.map.values) :
        i < j => Plain(last.map.values[i].key) # Plain(last.map.values[j].key)

\* What holds of the last list returned.
ListReturned ==
    last.list.at >= 0 =>
      LET l == last.list IN
        IF l.type \in {List, Int8, Uint8}
        THEN l.end = l.body + l.count /\ l.values = <<>>
        ELSE /\ Len(l.values) = l.count
             /\ \A i \in 1 .. Len(l.values) : l.values[i].type = l.type /\ l.values[i].id = 0
             /\ \A i \in 1 .. Len(l.values) - 1 : l.values[i].oid < l.values[i + 1].oid

\* _read_list holds the element type and count its tag gave, of a type that
\* is passed over.
AtBlob ==
    /\ Resuming("_read_list") /\ Top(Cur).pc = "tag"
    /\ ret[1].v.type \in {List, Int8, Uint8}

\* C5: a List or Set of List, Int8 or Uint8 elements moves the cursor by its
\* count past the tag, whatever the bytes there, without an error, and yields
\* no children; of any other element type it yields count children of that
\* type, of id 0, in wire order.
C5_ListElements ==
    [][/\ AtBlob => /\ status' = "run"
                    /\ pos' = pos + ret[1].v.count
                    /\ ret' = <<PyList(<<>>)>>
       /\ ListReturned']_vars

\* A list of Uint8 has returned after passing over a byte, 0xD8, that is no
\* tag and no UTF-8.
C5_Witness ==
    /\ last.list.at >= 0 /\ last.list.type = Uint8 /\ last.list.count >= 1
    /\ Len(data) > last.list.body /\ data[last.list.body + 1] = 216
    /\ last.seek.at = last.list.body

\* C6: a tag byte is read by its low five bits; bits that are no BondType of
\* 0..18 fail the call with an error and no node, and no decoded value has a
\* type outside 0..18.
C6_UnknownTagFails ==
    /\ (last.tag.at >= 0 /\ last.tag.byte % 32 \notin 0 .. 18) =>
         status = "error" /\ err = "ValueError" /\ root = <<>>
    /\ last.tag.at >= 0 => last.tag.byte = data[last.tag.at + 1]
    /\ last.tid.at >= 0 => last.tid.type = data[last.tid.at + 1] % 32
    /\ last.tc.at >= 0 => last.tc.type = data[last.tc.at + 1] % 32
    /\ last.val.at >= 0 => last.val.type \in 0 .. 18
    /\ \A k \in 1 .. Len(stack) :
         /\ stack[k].fn = "_read_value" => stack[k].type \in 0 .. 18
         /\ (stack[k].fn = "_read_map" /\ stack[k].pc # "types") =>
              /\ stack[k].key_type = data[stack[k].at + 1] % 32
              /\ stack[k].value_type = data[stack[k].at + 2] % 32
              /\ stack[k].key_type \in 0 .. 18
              /\ stack[k].value_type \in 0 .. 18

\* A map's value type byte was 0xD8 and the call failed.
C6_Witness ==
    /\ status = "error" /\ err = "ValueError"
    /\ last.tag.byte = 216 /\ last.tag.at >= 2
    /\ data[last.tag.at] \in 0 .. 18 /\ data[last.tag.at - 1] = 13

\* C7: a field header decodes to type = b mod 32 and, for selector b div 32,
\* to id = selector with no more bytes read (0..5), to the next byte with one
\* more byte read (6), to the next two bytes, little-endian, with two more
\* bytes read (7).
C7_FieldHeader ==
    last.tid.at >= 0 =>
      LET at == last.tid.at
          b == data[at + 1]
          sel == b \div 32
      IN  /\ last.tid.type = b % 32
          /\ sel <= 5 => last.tid.id = sel /\ last.tid.end = at + 1
          /\ sel = 6 => last.tid.end = at + 2 /\ last.tid.id = data[at + 2]
          /\ sel = 7 => /\ last.tid.end = at + 3
                        /\ last.tid.id = data[at + 2] + 256 * data[at + 3]

\* The bytes of the varint at data[i], and its value: seven bits a byte,
\* least significant group first, to the first byte below 128.
RECURSIVE VarintLen(_)
VarintLen(i) == IF data[i] < 128 THEN 1 ELSE 1 + VarintLen(i + 1)
RECURSIVE VarintValue(_)
VarintValue(i) ==
    IF data[i] < 128 THEN data[i] ELSE (data[i] % 128) + 128 * VarintValue(i + 1)

\* C8: a container tag decodes to element type = b mod 32 and, for selector
\* b div 32, to count = selector - 1 with no more bytes read (1..7), to the
\* varint that follows, with exactly its bytes read (0).
C8_ContainerTag ==
    last.tc.at >= 0 =>
      LET at == last.tc.at
          b == data[at + 1]
          sel == b \div 32
      IN  /\ last.tc.type = b % 32
          /\ sel >= 1 => last.tc.count = sel - 1 /\ last.tc.end = at + 1
          /\ sel = 0 => /\ last.tc.count = VarintValue(at + 2)
                        /\ last.tc.end = at + 1 + VarintLen(at + 2)

\* A container tag has returned a count read from a two-byte varint.
C8_Witness ==
    /\ last.tc.at >= 0 /\ data[last.tc.at + 1] \div 32 = 0
    /\ last.tc.end = last.tc.at + 3 /\ last.tc.count > 127

\* A container tag has returned a count carried by its selector.
C8_WitnessInline == last.tc.at >= 0 /\ data[last.tc.at + 1] \div 32 = 3

\* C9: within a call the read offset never decreases; the blob skip moves it
\* forward by a count that is never negative; a Stop, StopBase or Unavailable
\* value reads nothing.
C9_OffsetMonotone ==
    [][/\ call' = call => pos' >= pos
       /\ last'.seek.at >= 0 =>
            last'.seek.count >= 0 /\ last'.seek.end = last'.seek.at + last'.seek.count
       /\ (last'.val.at >= 0 /\ last'.val.type \in {Stop, StopBase, Unavailable}) =>
            last'.val.end = last'.val.at]_vars

\* A blob of at least two bytes was skipped after bytes had been read.
C9_Witness == last.seek.at >= 3 /\ last.seek.count >= 2 /\ pos = last.seek.end

\* C10: get_base_struct on a finite source ends, with a root or an error.
C10_Terminates == (status = "run") ~> (status = "ok" \/ status = "error")

\* A call has returned a root holding a list of two Stop elements, which
\* took no bytes.
C10_Witness ==
    /\ status = "ok"
    /\ \E i \in 1 .. Len(root[1].value.v) :
         LET val == root[1].value.v[i] IN
           /\ val.type = List
           /\ Len(val.value.v) = 2
           /\ val.value.v[1].type = Stop

====
